---- MODULE Spec2Model ----
(***************************************************************************)
(* State-machine model of src/src/discordas.ts: the command line entry     *)
(* point of the Matrix <-> Discord bridge.  It models run() (option        *)
(* parsing, registration generation, configuration loading, the staged     *)
(* startup) and the two event handlers run() subscribes on the Appservice. *)
(* Collaborators (store, appservice, discordbot) are external: each of     *)
(* their asynchronous calls either resolves or rejects, nondeterministic.  *)
(***************************************************************************)
EXTENDS Integers, Sequences, FiniteSets, TLC

(***************************************************************************)
(* Bounds of the model.                                                    *)
(***************************************************************************)
\* how many events the transport delivers in one execution
MaxEvents == 2
\* how many log calls the bot SDK makes in one execution
MaxSdkLogs == 2

(***************************************************************************)
(* Values.                                                                 *)
(***************************************************************************)
\* an absent (undefined) port: falsy in "opts.port || config.bridge.port"
NoPort == 0
\* the port values the command line / the configuration file may carry
CliPorts == {NoPort, 9005}
FilePorts == {NoPort, 9000}
\* the exit status while the process has not terminated
NotExited == -1

Aliases == {"#_discord_a"}
RoomIds == {"!r:hs"}
\* what roomhandler.OnAliasQuery resolves to: room creation options, each
\* carrying its __roomId
CreateRoomOpts == {"optsA", "optsB"}
\* what store.roomStore.getEntriesByMatrixId resolves to
Entries == {"noEntries", "oneEntry"}

\* the two event names run() subscribes to
EventNames == {"query.room", "room.event"}

\* an error value: which call raised it and which identifier (if any) its
\* text mentions
NoErr == [from |-> "none", mentions |-> "none"]
Err(from, mentions) == [from |-> from, mentions |-> mentions]

\* createRoomOpts.__roomId
RoomIdOf(o) == IF o = "optsA" THEN "!a:hs" ELSE "!b:hs"

\* a log entry written through Log
LogEntry(level, msg, err, port) == [level |-> level, msg |-> msg, err |-> err, port |-> port]

\* JavaScript's a || b on ports (0 / undefined are falsy)
JsOr(a, b) == IF a # NoPort THEN a ELSE b

\* typeof readConfig === "object"
TypeofIsObject(kind) == kind \in {"mapping"}

VARIABLES
    argv,       \* process.argv as command-line-args sees it
    disk,       \* the files: the configuration document, the registration file
    env,        \* process.env (the overrides it carries)
    pc,         \* the position of run()
    config,     \* the DiscordBridgeConfig object
    port,       \* const port of run()
    thrown,     \* the error run() rejected with (NoErr if none)
    calls,      \* history: the calls run() has made, in order
    log,        \* the log entries written, in order
    exitCode,   \* the status the process terminated with, or NotExited
    uuids,      \* how many tokens uuid() has produced
    store,      \* state of the DiscordStore
    appservice, \* state of the Appservice (the transport)
    discordbot, \* state of the DiscordBot (bridge logic)
    metricPeg,  \* whether MetricPeg has been set
    handlers,   \* the event names with a listener on the appservice
    inv,        \* the handler invocations, one per delivered event
    missed,     \* events emitted while no listener was subscribed
    unhandled,  \* invocations whose promise rejected (error left the handler)
    logMap,     \* setupLogging: the module tags that have a logger
    forwarded,  \* the entries logFunc has passed on to a logger, in order
    sdkCalls,   \* history: the log calls the bot SDK has made, in order
    sdkErrors   \* the positions in sdkCalls of the calls that threw to the SDK

vars == <<argv, disk, env, pc, config, port, thrown, calls, log, exitCode, uuids,
          store, appservice, discordbot, metricPeg, handlers, inv, missed, unhandled,
          logMap, forwarded, sdkCalls, sdkErrors>>

\* the variables of the SDK logger
sdk == <<logMap, forwarded, sdkCalls, sdkErrors>>

\* the variables of the startup collaborators
collab == <<store, appservice, discordbot, metricPeg, handlers>>
\* the variables of the event side
evs == <<inv, missed, unhandled>>
\* the inputs never change
inputs == <<argv, env>>

Alive == exitCode = NotExited

(***************************************************************************)
(* new DiscordBridgeConfig(): constructed empty (no port, no legacy keys,  *)
(* metrics disabled).                                                      *)
(***************************************************************************)
EmptyConfig == [port |-> NoPort, roomStorePath |-> FALSE, userStorePath |-> FALSE,
                metrics |-> FALSE]

\* config.applyConfig(readConfig): the document's fields onto the config
ApplyConfig(c, doc) == [port |-> doc.port, roomStorePath |-> doc.roomStorePath,
                        userStorePath |-> doc.userStorePath, metrics |-> doc.metrics]

\* config.applyEnvironmentOverrides(process.env)
ApplyEnvironmentOverrides(c, e) ==
    [c EXCEPT !.roomStorePath = c.roomStorePath \/ e.roomStorePath]

Init ==
    /\ argv \in [ok : BOOLEAN, help : BOOLEAN, generate : BOOLEAN,
                 url : BOOLEAN, port : CliPorts]
    /\ disk \in [config : {"absent", "mapping", "scalar"},
                 port : FilePorts,
                 roomStorePath : BOOLEAN, userStorePath : BOOLEAN,
                 metrics : BOOLEAN,
                 registration : {"absent", "old"}]
    \* fields of a document that is not a mapping do not exist
    /\ disk.config # "mapping" =>
          /\ disk.port = NoPort
          /\ ~disk.roomStorePath /\ ~disk.userStorePath /\ ~disk.metrics
    \* opts.url is read by generateRegistration alone
    /\ ~argv.generate => ~argv.url
    /\ env \in [roomStorePath : BOOLEAN]
    /\ pc = "start"
    /\ config = EmptyConfig
    /\ port = NoPort
    /\ thrown = NoErr
    /\ calls = <<>>
    /\ log = <<>>
    /\ exitCode = NotExited
    /\ uuids = 0
    /\ store = "none"
    /\ appservice = [state |-> "none", port |-> NoPort]
    /\ discordbot = "none"
    /\ metricPeg = FALSE
    /\ handlers = {}
    /\ inv = <<>>
    /\ missed = 0
    /\ unhandled = {}
    /\ logMap = {}
    /\ forwarded = <<>>
    /\ sdkCalls = <<>>
    /\ sdkErrors = {}

\* run() throws: its promise rejects with e
Throw(e) == /\ pc' = "rejected"
            /\ thrown' = e

Call(name) == calls' = Append(calls, name)

\* process.exit(code)
Exit(code) == /\ exitCode' = code
              /\ pc' = "exited"

\* mutant: --help ends the process with status 1
ParseArgs_HelpExitsOne ==
    /\ Alive /\ pc = "start"
    /\ Call("cliArgs")
    /\ IF ~argv.ok
       THEN /\ Throw(Err("cliArgs", "none"))
            /\ UNCHANGED exitCode
       ELSE IF argv.help
       THEN /\ Exit(1)
            /\ UNCHANGED thrown
       ELSE /\ pc' = "generate"
            /\ UNCHANGED <<thrown, exitCode>>
    /\ UNCHANGED <<inputs, sdk, disk, config, port, log, uuids, collab, evs>>

(***************************************************************************)
(* run(), lines 105-119: parse the options (command-line-args throws on an *)
(* option it does not know); --help prints usage and exits.                *)
(***************************************************************************)
ParseArgs ==
    /\ Alive /\ pc = "start"
    /\ Call("cliArgs")
    /\ IF ~argv.ok
       THEN /\ Throw(Err("cliArgs", "none"))
            /\ UNCHANGED exitCode
       ELSE IF argv.help
       THEN /\ Exit(0)
            /\ UNCHANGED thrown
       ELSE /\ pc' = "generate"
            /\ UNCHANGED <<thrown, exitCode>>
    /\ UNCHANGED <<inputs, sdk, disk, config, port, log, uuids, collab, evs>>

(***************************************************************************)
(* run(), lines 121-126: with --generate-registration, refuse to write     *)
(* over an existing file; without it, go on to the run path.               *)
(***************************************************************************)
CheckGenerate ==
    /\ Alive /\ pc = "generate"
    /\ IF argv.generate
       THEN /\ Call("existsSync")
            /\ IF disk.registration # "absent"
               THEN Throw(Err("alreadyExists", "none"))
               ELSE /\ pc' = "generateRegistration"
                    /\ UNCHANGED thrown
       ELSE /\ pc' = "port"
            /\ UNCHANGED <<thrown, calls>>
    /\ UNCHANGED <<inputs, sdk, disk, config, port, log, exitCode, uuids, collab, evs>>

\* mutant: the return after generateRegistration() is missing
generateRegistration_FallsThrough ==
    /\ Alive /\ pc = "generateRegistration"
    /\ IF ~argv.url
       THEN /\ Throw(Err("urlNotGiven", "none"))
            /\ UNCHANGED <<calls, uuids, disk>>
       ELSE /\ uuids' = uuids + 2
            /\ calls' = calls \o <<"uuid", "uuid", "safeDump", "writeFileSync">>
            /\ disk' = [disk EXCEPT !.registration = "new"]
            /\ pc' = "port"
            /\ UNCHANGED thrown
    /\ UNCHANGED <<inputs, sdk, config, port, log, exitCode, collab, evs>>

\* mutant: the registration is built (tokens drawn) before the url is checked
generateRegistration_TokensFirst ==
    /\ Alive /\ pc = "generateRegistration"
    /\ uuids' = uuids + 2
    /\ IF ~argv.url
       THEN /\ Throw(Err("urlNotGiven", "none"))
            /\ calls' = calls \o <<"uuid", "uuid">>
            /\ UNCHANGED disk
       ELSE /\ calls' = calls \o <<"uuid", "uuid", "safeDump", "writeFileSync">>
            /\ disk' = [disk EXCEPT !.registration = "new"]
            /\ pc' = "returned"
            /\ UNCHANGED thrown
    /\ UNCHANGED <<inputs, sdk, config, port, log, exitCode, collab, evs>>

(***************************************************************************)
(* generateRegistration(), lines 41-70, and the return of line 128.        *)
(***************************************************************************)
generateRegistration ==
    /\ Alive /\ pc = "generateRegistration"
    /\ IF ~argv.url
       THEN /\ Throw(Err("urlNotGiven", "none"))
            /\ UNCHANGED <<calls, uuids, disk>>
       ELSE /\ uuids' = uuids + 2
            /\ calls' = calls \o <<"uuid", "uuid", "safeDump", "writeFileSync">>
            /\ disk' = [disk EXCEPT !.registration = "new"]
            /\ pc' = "returned"
            /\ UNCHANGED thrown
    /\ UNCHANGED <<inputs, sdk, config, port, log, exitCode, collab, evs>>

(***************************************************************************)
(* run() has returned and nothing keeps the event loop alive: the process  *)
(* ends with status 0.                                                     *)
(***************************************************************************)
EventLoopDrain ==
    /\ Alive /\ pc = "returned"
    /\ appservice.state \notin {"beginning", "started"}
    /\ exitCode' = 0
    /\ UNCHANGED <<inputs, sdk, disk, pc, config, port, thrown, calls, log, uuids, collab, evs>>

(***************************************************************************)
(* run(), lines 131-135: the port is resolved from the options and the     *)
(* freshly constructed configuration object.                               *)
(***************************************************************************)
ResolvePort ==
    /\ Alive /\ pc = "port"
    /\ Call("new DiscordBridgeConfig")
    /\ config' = EmptyConfig
    /\ port' = JsOr(argv.port, config'.port)
    /\ IF port' = NoPort
       THEN Throw(Err("portNotGiven", "none"))
       ELSE /\ pc' = "readConfig"
            /\ UNCHANGED thrown
    /\ UNCHANGED <<inputs, sdk, disk, log, exitCode, uuids, collab, evs>>

(***************************************************************************)
(* run(), lines 136-139: read and parse the configuration file.            *)
(***************************************************************************)
LoadConfig ==
    /\ Alive /\ pc = "readConfig"
    /\ Call("readFileSync config")
    /\ IF disk.config = "absent"
       THEN Throw(Err("readFileSync", "none"))
       ELSE IF ~TypeofIsObject(disk.config)
       THEN Throw(Err("notAnObject", "none"))
       ELSE /\ pc' = "applyConfig"
            /\ UNCHANGED thrown
    /\ UNCHANGED <<inputs, sdk, disk, config, port, log, exitCode, uuids, collab, evs>>

(***************************************************************************)
(* run(), lines 140-142.                                                   *)
(***************************************************************************)
ApplyConfigStep ==
    /\ Alive /\ pc = "applyConfig"
    /\ config' = ApplyEnvironmentOverrides(ApplyConfig(config, disk), env)
    /\ calls' = calls \o <<"applyConfig", "applyEnvironmentOverrides", "Log.Configure">>
    /\ pc' = "legacy"
    /\ UNCHANGED <<inputs, sdk, disk, port, thrown, log, exitCode, uuids, collab, evs>>

\* mutant: the legacy keys are reported but startup goes on
LegacyCheck_OnlyLogs ==
    /\ Alive /\ pc = "legacy"
    /\ IF config.roomStorePath \/ config.userStorePath
       THEN log' = Append(log, LogEntry("error", "legacy keys still defined", NoErr, NoPort))
       ELSE UNCHANGED log
    /\ pc' = "readRegistration"
    /\ UNCHANGED <<inputs, sdk, disk, config, port, thrown, calls, exitCode, uuids, collab, evs>>

(***************************************************************************)
(* run(), lines 143-148: refuse a configuration with the legacy keys.      *)
(***************************************************************************)
LegacyCheck ==
    /\ Alive /\ pc = "legacy"
    /\ IF config.roomStorePath \/ config.userStorePath
       THEN /\ log' = Append(log, LogEntry("error", "legacy keys still defined", NoErr, NoPort))
            /\ Throw(Err("legacyConfig", "none"))
       ELSE /\ pc' = "readRegistration"
            /\ UNCHANGED <<thrown, log>>
    /\ UNCHANGED <<inputs, sdk, disk, config, port, calls, exitCode, uuids, collab, evs>>

(***************************************************************************)
(* run(), lines 149-150: read the registration file, install the logger    *)
(* of the bot SDK.                                                         *)
(***************************************************************************)
ReadRegistration ==
    /\ Alive /\ pc = "readRegistration"
    /\ IF disk.registration = "absent"
       THEN /\ Call("readFileSync registration")
            /\ Throw(Err("readFileSync", "none"))
       ELSE /\ calls' = calls \o <<"readFileSync registration", "setupLogging">>
            /\ pc' = "newStore"
            /\ UNCHANGED thrown
    /\ UNCHANGED <<inputs, sdk, disk, config, port, log, exitCode, uuids, collab, evs>>

(***************************************************************************)
(* run(), line 152.                                                        *)
(***************************************************************************)
ConstructStore ==
    /\ Alive /\ pc = "newStore"
    /\ Call("new DiscordStore")
    /\ store' = "constructed"
    /\ pc' = "newAppservice"
    /\ UNCHANGED <<inputs, sdk, disk, config, port, thrown, log, exitCode, uuids,
                   appservice, discordbot, metricPeg, handlers, evs>>

(***************************************************************************)
(* run(), lines 154-161: the transport is given the resolved port.         *)
(***************************************************************************)
ConstructAppservice ==
    /\ Alive /\ pc = "newAppservice"
    /\ Call("new Appservice")
    /\ appservice' = [state |-> "constructed", port |-> port]
    /\ pc' = "metrics"
    /\ UNCHANGED <<inputs, sdk, disk, config, port, thrown, log, exitCode, uuids,
                   store, discordbot, metricPeg, handlers, evs>>

\* mutant: store initialization is left out of the startup sequence
AttachMetrics_SkipsStoreInit ==
    /\ Alive /\ pc = "metrics"
    /\ IF config.metrics
       THEN /\ log' = Append(log, LogEntry("info", "Enabled metrics", NoErr, NoPort))
            /\ Call("metrics.init")
            /\ metricPeg' = TRUE
       ELSE UNCHANGED <<log, calls, metricPeg>>
    /\ pc' = "newBot"
    /\ UNCHANGED <<inputs, sdk, disk, config, port, thrown, exitCode, uuids,
                   store, appservice, discordbot, handlers, evs>>

(***************************************************************************)
(* run(), lines 163-166.                                                   *)
(***************************************************************************)
AttachMetrics ==
    /\ Alive /\ pc = "metrics"
    /\ IF config.metrics
       THEN /\ log' = Append(log, LogEntry("info", "Enabled metrics", NoErr, NoPort))
            /\ Call("metrics.init")
            /\ metricPeg' = TRUE
       ELSE UNCHANGED <<log, calls, metricPeg>>
    /\ pc' = "storeInit"
    /\ UNCHANGED <<inputs, sdk, disk, config, port, thrown, exitCode, uuids,
                   store, appservice, discordbot, handlers, evs>>

(***************************************************************************)
(* run(), lines 168-173: await store.init(); a rejection is logged and     *)
(* ends the process with status 1.                                         *)
(***************************************************************************)
\* mutant: store.init() is called but not awaited
StoreInitCall_NotAwaited ==
    /\ Alive /\ pc = "storeInit"
    /\ Call("store.init")
    /\ store' = "initializing"
    /\ pc' = "newBot"
    /\ UNCHANGED <<inputs, sdk, disk, config, port, thrown, log, exitCode, uuids,
                   appservice, discordbot, metricPeg, handlers, evs>>

StoreInitCall ==
    /\ Alive /\ pc = "storeInit"
    /\ Call("store.init")
    /\ store' = "initializing"
    /\ pc' = "awaitStoreInit"
    /\ UNCHANGED <<inputs, sdk, disk, config, port, thrown, log, exitCode, uuids,
                   appservice, discordbot, metricPeg, handlers, evs>>

StoreInitResolve ==
    /\ Alive /\ pc = "awaitStoreInit"
    /\ Call("store.init:ok")
    /\ store' = "ready"
    /\ pc' = "newBot"
    /\ UNCHANGED <<inputs, sdk, disk, config, port, thrown, log, exitCode, uuids,
                   appservice, discordbot, metricPeg, handlers, evs>>

\* mutant: the catch block logs and falls through (no process.exit)
StoreInitReject_NoExit ==
    /\ Alive /\ pc = "awaitStoreInit"
    /\ Call("store.init:err")
    /\ store' = "failed"
    /\ log' = Append(log, LogEntry("error", "Failed to init database. Exiting.",
                                   Err("store.init", "none"), NoPort))
    /\ pc' = "newBot"
    /\ UNCHANGED <<inputs, sdk, disk, config, port, thrown, exitCode, uuids,
                   appservice, discordbot, metricPeg, handlers, evs>>

StoreInitReject ==
    /\ Alive /\ pc = "awaitStoreInit"
    /\ Call("store.init:err")
    /\ store' = "failed"
    /\ log' = Append(log, LogEntry("error", "Failed to init database. Exiting.",
                                   Err("store.init", "none"), NoPort))
    /\ Exit(1)
    /\ UNCHANGED <<inputs, sdk, disk, config, port, thrown, uuids,
                   appservice, discordbot, metricPeg, handlers, evs>>

(***************************************************************************)
(* run(), lines 175-177.                                                   *)
(***************************************************************************)
ConstructBot ==
    /\ Alive /\ pc = "newBot"
    /\ Call("new DiscordBot")
    /\ discordbot' = "constructed"
    /\ pc' = "onQueryRoom"
    /\ UNCHANGED <<inputs, sdk, disk, config, port, thrown, log, exitCode, uuids,
                   store, appservice, metricPeg, handlers, evs>>

(***************************************************************************)
(* run(), line 180: appservice.on("query.room", ...).                      *)
(***************************************************************************)
OnQueryRoom ==
    /\ Alive /\ pc = "onQueryRoom"
    /\ Call("on query.room")
    /\ handlers' = handlers \cup {"query.room"}
    /\ pc' = "onRoomEvent"
    /\ UNCHANGED <<inputs, sdk, disk, config, port, thrown, log, exitCode, uuids,
                   store, appservice, discordbot, metricPeg, evs>>

\* mutant: the "room.event" subscription is left out
OnRoomEvent_NotSubscribed ==
    /\ Alive /\ pc = "onRoomEvent"
    /\ pc' = "bindThirdparty"
    /\ UNCHANGED <<inputs, sdk, disk, config, port, thrown, calls, log, exitCode, uuids,
                   collab, evs>>

(***************************************************************************)
(* run(), line 190: appservice.on("room.event", ...).                      *)
(***************************************************************************)
OnRoomEvent ==
    /\ Alive /\ pc = "onRoomEvent"
    /\ Call("on room.event")
    /\ handlers' = handlers \cup {"room.event"}
    /\ pc' = "bindThirdparty"
    /\ UNCHANGED <<inputs, sdk, disk, config, port, thrown, log, exitCode, uuids,
                   store, appservice, discordbot, metricPeg, evs>>

(***************************************************************************)
(* run(), line 199: roomhandler.bindThirdparty(), synchronous; if it       *)
(* throws, run() rejects.                                                  *)
(***************************************************************************)
BindThirdparty ==
    /\ Alive /\ pc = "bindThirdparty"
    /\ Call("bindThirdparty")
    /\ \/ /\ pc' = "begin"
          /\ UNCHANGED thrown
       \/ Throw(Err("bindThirdparty", "none"))
    /\ UNCHANGED <<inputs, sdk, disk, config, port, log, exitCode, uuids, collab, evs>>

(***************************************************************************)
(* run(), lines 201-205: await appservice.begin().  begin() resolves from  *)
(* the listen callback and run() continues in the same turn of the event   *)
(* loop, before any request is served: it logs the port and calls          *)
(* discordbot.init(), its next await.  Events are delivered from then on.  *)
(***************************************************************************)
BeginCall ==
    /\ Alive /\ pc = "begin"
    /\ Call("appservice.begin")
    /\ appservice' = [appservice EXCEPT !.state = "beginning"]
    /\ pc' = "awaitBegin"
    /\ UNCHANGED <<inputs, sdk, disk, config, port, thrown, log, exitCode, uuids,
                   store, discordbot, metricPeg, handlers, evs>>

BeginResolve ==
    /\ Alive /\ pc = "awaitBegin"
    /\ calls' = calls \o <<"appservice.begin:ok", "discordbot.init">>
    /\ appservice' = [appservice EXCEPT !.state = "started"]
    /\ log' = Append(log, LogEntry("info", "Started listening on port", NoErr, port))
    /\ discordbot' = "initializing"
    /\ pc' = "awaitInit"
    /\ UNCHANGED <<inputs, sdk, disk, config, port, thrown, exitCode, uuids,
                   store, metricPeg, handlers, evs>>

BeginReject ==
    /\ Alive /\ pc = "awaitBegin"
    /\ Call("appservice.begin:err")
    /\ appservice' = [appservice EXCEPT !.state = "failed"]
    /\ Throw(Err("appservice.begin", "none"))
    /\ UNCHANGED <<inputs, sdk, disk, config, port, log, exitCode, uuids,
                   store, discordbot, metricPeg, handlers, evs>>

(***************************************************************************)
(* run(), lines 204-212: discordbot.init() resolves or rejects, then       *)
(* await discordbot.run(); a rejection of either is logged and ends the    *)
(* process with status 1.                                                  *)
(***************************************************************************)
BridgeStartupCatch(e) ==
    /\ log' = log \o <<LogEntry("error", "", e, NoPort),
                       LogEntry("error", "Failure during startup. Exiting", NoErr, NoPort)>>
    /\ Exit(1)

\* init() resolved: run() goes on to call discordbot.run(), its next await
InitResolve ==
    /\ Alive /\ pc = "awaitInit"
    /\ calls' = calls \o <<"discordbot.init:ok", "discordbot.run">>
    /\ discordbot' = "starting"
    /\ pc' = "awaitRun"
    /\ UNCHANGED <<inputs, sdk, disk, config, port, thrown, log, exitCode, uuids,
                   store, appservice, metricPeg, handlers, evs>>

InitReject ==
    /\ Alive /\ pc = "awaitInit"
    /\ Call("discordbot.init:err")
    /\ discordbot' = "failed"
    /\ BridgeStartupCatch(Err("discordbot.init", "none"))
    /\ UNCHANGED <<inputs, sdk, disk, config, port, thrown, uuids,
                   store, appservice, metricPeg, handlers, evs>>

RunResolve ==
    /\ Alive /\ pc = "awaitRun"
    /\ Call("discordbot.run:ok")
    /\ discordbot' = "running"
    /\ log' = Append(log, LogEntry("info", "Discordbot started successfully", NoErr, NoPort))
    /\ pc' = "returned"
    /\ UNCHANGED <<inputs, sdk, disk, config, port, thrown, exitCode, uuids,
                   store, appservice, metricPeg, handlers, evs>>

RunReject ==
    /\ Alive /\ pc = "awaitRun"
    /\ Call("discordbot.run:err")
    /\ discordbot' = "failed"
    /\ BridgeStartupCatch(Err("discordbot.run", "none"))
    /\ UNCHANGED <<inputs, sdk, disk, config, port, thrown, uuids,
                   store, appservice, metricPeg, handlers, evs>>

\* mutant: the outermost catch logs and ends the process with status 0
TopLevelCatch_ExitsZero ==
    /\ Alive /\ pc = "rejected"
    /\ log' = Append(log, LogEntry("error", "A fatal error occurred during startup:",
                                   thrown, NoPort))
    /\ Exit(0)
    /\ UNCHANGED <<inputs, sdk, disk, config, port, thrown, calls, uuids, collab, evs>>

(***************************************************************************)
(* Lines 215-218: run().catch(...): whatever run() rejected with is logged *)
(* and the process ends with status 1.                                     *)
(***************************************************************************)
TopLevelCatch ==
    /\ Alive /\ pc = "rejected"
    /\ log' = Append(log, LogEntry("error", "A fatal error occurred during startup:",
                                   thrown, NoPort))
    /\ Exit(1)
    /\ UNCHANGED <<inputs, sdk, disk, config, port, thrown, calls, uuids, collab, evs>>

(***************************************************************************)
(* The event handlers of lines 180-197.  An invocation is a record: the    *)
(* event it handles (kind, id), the call it awaits (pc), the value its     *)
(* first call resolved to (val), the error it caught (err) and its calls.  *)
(***************************************************************************)
Invocation(kind, id, first) ==
    [kind |-> kind, id |-> id, pc |-> first, val |-> "none", err |-> NoErr,
     calls |-> <<[fn |-> first, arg |-> id, arg2 |-> "none"]>>]

\* the identifiers an event of each kind may carry
IdsOf(kind) == IF kind = "query.room" THEN Aliases ELSE RoomIds

\* the first call each handler makes, synchronously, when it is invoked
FirstCall(kind) == IF kind = "query.room" THEN "OnAliasQuery" ELSE "getEntriesByMatrixId"

\* the message each handler's catch block logs
CatchMessage(kind) ==
    IF kind = "query.room" THEN "Exception thrown while handling \"query.room\" event"
                           ELSE "Exception thrown while handling \"room.event\" event"

\* the errors a collaborator call of invocation i may raise: its text may or
\* may not mention the identifier of the event
ErrorsOf(i) == {Err(inv[i].pc, m) : m \in {"none", inv[i].id}}

(***************************************************************************)
(* The transport emits an event: EventEmitter calls the listener of its    *)
(* name, if any, which runs up to its first await.                         *)
(***************************************************************************)
Deliver(kind, id) ==
    /\ Alive
    /\ appservice.state = "started"
    /\ Len(inv) + missed < MaxEvents
    /\ IF kind \in handlers
       THEN /\ inv' = Append(inv, Invocation(kind, id, FirstCall(kind)))
            /\ UNCHANGED missed
       ELSE /\ missed' = missed + 1
            /\ UNCHANGED inv
    /\ UNCHANGED <<inputs, sdk, disk, pc, config, port, thrown, calls, log, exitCode, uuids,
                   collab, unhandled>>

\* mutant: the handler has no catch block: the error leaves the handler
HandlerCatch_Rethrows(i, e) ==
    /\ inv' = [inv EXCEPT ![i].pc = "done", ![i].err = e]
    /\ unhandled' = unhandled \cup {i}
    /\ UNCHANGED log

\* mutant: the catch block logs the message without the error
HandlerCatch_DropsError(i, e) ==
    /\ log' = Append(log, LogEntry("error", CatchMessage(inv[i].kind), NoErr, NoPort))
    /\ inv' = [inv EXCEPT ![i].pc = "done", ![i].err = e]
    /\ UNCHANGED unhandled

\* mutant: the catch block logs the error and starts the handler over, once
HandlerCatch_RetriesOnce(i, e) ==
    /\ log' = Append(log, LogEntry("error", CatchMessage(inv[i].kind), e, NoPort))
    /\ IF \E k \in DOMAIN inv[i].calls : k > 1 /\ inv[i].calls[k].fn = FirstCall(inv[i].kind)
       THEN inv' = [inv EXCEPT ![i].pc = "done", ![i].err = e]
       ELSE inv' = [inv EXCEPT ![i].pc = FirstCall(inv[i].kind), ![i].val = "none",
                               ![i].calls = Append(@, [fn |-> FirstCall(inv[i].kind),
                                                       arg |-> inv[i].id, arg2 |-> "none"])]
    /\ UNCHANGED unhandled

(***************************************************************************)
(* The catch blocks of lines 185-187 and 194-196: log the error, and the   *)
(* invocation is over.                                                     *)
(***************************************************************************)
HandlerCatch(i, e) ==
    /\ log' = Append(log, LogEntry("error", CatchMessage(inv[i].kind), e, NoPort))
    /\ inv' = [inv EXCEPT ![i].pc = "done", ![i].err = e]
    /\ UNCHANGED unhandled

\* the handler goes on to its next call
HandlerCall(i, fn, arg, arg2) ==
    [inv[i] EXCEPT !.pc = fn,
                   !.calls = Append(@, [fn |-> fn, arg |-> arg, arg2 |-> arg2])]

\* mutant: OnAliasQueried is called without waiting for createRoom
QueryRoomResolve_NotifiesEarly(i) ==
    /\ Alive
    /\ inv[i].kind = "query.room"
    /\ \/ /\ inv[i].pc = "OnAliasQuery"
          /\ \E o \in CreateRoomOpts :
                inv' = [inv EXCEPT ![i] =
                           [inv[i] EXCEPT !.pc = "createRoom", !.val = o,
                               !.calls = @ \o <<[fn |-> "createRoom", arg |-> o, arg2 |-> "none"],
                                                [fn |-> "OnAliasQueried", arg |-> inv[i].id,
                                                 arg2 |-> RoomIdOf(o)]>>]]
       \/ /\ inv[i].pc = "createRoom"
          /\ inv' = [inv EXCEPT ![i].pc = "OnAliasQueried"]
       \/ /\ inv[i].pc = "OnAliasQueried"
          /\ inv' = [inv EXCEPT ![i].pc = "done"]
    /\ UNCHANGED <<inputs, sdk, disk, pc, config, port, thrown, calls, log, exitCode, uuids,
                   collab, missed, unhandled>>

\* mutant: an alias query waits until the invocations before it are over
QueryRoomResolve_Serialized(i) ==
    /\ Alive
    /\ inv[i].kind = "query.room"
    /\ \A j \in 1..(i - 1) : inv[j].pc = "done"
    /\ \/ /\ inv[i].pc = "OnAliasQuery"
          /\ \E o \in CreateRoomOpts :
                inv' = [inv EXCEPT ![i] = [HandlerCall(i, "createRoom", o, "none")
                                              EXCEPT !.val = o]]
       \/ /\ inv[i].pc = "createRoom"
          /\ inv' = [inv EXCEPT ![i] = HandlerCall(i, "OnAliasQueried", inv[i].id,
                                                   RoomIdOf(inv[i].val))]
       \/ /\ inv[i].pc = "OnAliasQueried"
          /\ inv' = [inv EXCEPT ![i].pc = "done"]
    /\ UNCHANGED <<inputs, sdk, disk, pc, config, port, thrown, calls, log, exitCode, uuids,
                   collab, missed, unhandled>>

(***************************************************************************)
(* The "query.room" handler, lines 180-188.                                *)
(***************************************************************************)
QueryRoomResolve(i) ==
    /\ Alive
    /\ inv[i].kind = "query.room"
    /\ \/ /\ inv[i].pc = "OnAliasQuery"
          /\ \E o \in CreateRoomOpts :
                inv' = [inv EXCEPT ![i] = [HandlerCall(i, "createRoom", o, "none")
                                              EXCEPT !.val = o]]
       \/ /\ inv[i].pc = "createRoom"
          /\ inv' = [inv EXCEPT ![i] = HandlerCall(i, "OnAliasQueried", inv[i].id,
                                                   RoomIdOf(inv[i].val))]
       \/ /\ inv[i].pc = "OnAliasQueried"
          /\ inv' = [inv EXCEPT ![i].pc = "done"]
    /\ UNCHANGED <<inputs, sdk, disk, pc, config, port, thrown, calls, log, exitCode, uuids,
                   collab, missed, unhandled>>

QueryRoomReject(i) ==
    /\ Alive
    /\ inv[i].kind = "query.room"
    /\ inv[i].pc \in {"OnAliasQuery", "createRoom", "OnAliasQueried"}
    /\ \E e \in ErrorsOf(i) : HandlerCatch(i, e)
    /\ UNCHANGED <<inputs, sdk, disk, pc, config, port, thrown, calls, exitCode, uuids,
                   collab, missed>>

\* the timeline event the transport emits together with room id r
EventOf(r) == <<"event", r>>

\* mutant: OnEvent is given no entries, whatever the lookup returned
RoomEventResolve_DropsEntries(i) ==
    /\ Alive
    /\ inv[i].kind = "room.event"
    /\ \/ /\ inv[i].pc = "getEntriesByMatrixId"
          /\ \E en \in Entries :
                inv' = [inv EXCEPT ![i] = [HandlerCall(i, "OnEvent", EventOf(inv[i].id),
                                                       "noEntries")
                                              EXCEPT !.val = en]]
       \/ /\ inv[i].pc = "OnEvent"
          /\ inv' = [inv EXCEPT ![i].pc = "done"]
    /\ UNCHANGED <<inputs, sdk, disk, pc, config, port, thrown, calls, log, exitCode, uuids,
                   collab, missed, unhandled>>

(***************************************************************************)
(* The "room.event" handler, lines 190-197.                                *)
(***************************************************************************)
RoomEventResolve(i) ==
    /\ Alive
    /\ inv[i].kind = "room.event"
    /\ \/ /\ inv[i].pc = "getEntriesByMatrixId"
          /\ \E en \in Entries :
                inv' = [inv EXCEPT ![i] = [HandlerCall(i, "OnEvent", EventOf(inv[i].id), en)
                                              EXCEPT !.val = en]]
       \/ /\ inv[i].pc = "OnEvent"
          /\ inv' = [inv EXCEPT ![i].pc = "done"]
    /\ UNCHANGED <<inputs, sdk, disk, pc, config, port, thrown, calls, log, exitCode, uuids,
                   collab, missed, unhandled>>

RoomEventReject(i) ==
    /\ Alive
    /\ inv[i].kind = "room.event"
    /\ inv[i].pc \in {"getEntriesByMatrixId", "OnEvent"}
    /\ \E e \in ErrorsOf(i) : HandlerCatch(i, e)
    /\ UNCHANGED <<inputs, sdk, disk, pc, config, port, thrown, calls, exitCode, uuids,
                   collab, missed>>

(***************************************************************************)
(* setupLogging(), lines 72-102.  A JavaScript value handed to the logger  *)
(* is a string (its text a sequence of pieces), an object without an       *)
(* includes method, null or undefined, or an array of such values.         *)
(***************************************************************************)
Str(text) == [type |-> "string", text |-> text, items |-> <<>>]
Obj == [type |-> "object", text |-> <<>>, items |-> <<>>]
Null == [type |-> "null", text |-> <<>>, items |-> <<>>]
Arr(items) == [type |-> "array", text |-> <<>>, items |-> items]

Plain == Str(<<"listening">>)
InUse == Str(<<"errcode: ", "M_USER_IN_USE", " taken">>)
\* the values the SDK logs
SdkValues == {Plain, InUse, Obj, Null}
\* what the SDK hands over as args: one value, or an array of values
SdkArgs == SdkValues \cup {Arr(<<>>)} \cup {Arr(<<v>>) : v \in SdkValues}
              \cup {Arr(<<Plain, InUse>>), Arr(<<Null, InUse>>), Arr(<<InUse, Null>>)}
SdkModules == {"Appservice", "MatrixClient"}
\* the methods of the logger object given to LogService.setLogger
SdkMethods == {"debug", "error", "info", "warn"}

\* Array.isArray(args)
ArrayIsArray(a) == a.type = "array"

\* reading s.includes throws a TypeError when s is null or undefined
ReadThrows(v) == v.type = "null"

\* s.includes && s.includes(needle): strings and arrays have includes
Includes(v, needle) ==
    CASE v.type = "string" -> \E k \in DOMAIN v.text : v.text[k] = needle
      [] v.type = "array" -> \E k \in DOMAIN v.items : v.items[k] = Str(<<needle>>)
      [] OTHER -> FALSE

\* lines 94-100: the level each method logs at
LevelOf(method) == IF method = "debug" THEN "silly" ELSE method

(***************************************************************************)
(* logFunc, lines 75-90.  args.find() tests the elements in order and      *)
(* stops at the first that matches; an element that is null or undefined   *)
(* makes the test throw, and the error leaves logFunc.                     *)
(***************************************************************************)
logFunc(level, module, args) ==
    LET a == IF ~ArrayIsArray(args) THEN Arr(<<args>>) ELSE args
        stops == {k \in DOMAIN a.items :
                     ReadThrows(a.items[k]) \/ Includes(a.items[k], "M_USER_IN_USE")}
        first == CHOOSE k \in stops : \A j \in stops : k <= j
        mod == <<"bot-sdk", module>>
    IN IF stops # {}
       THEN /\ sdkErrors' = IF ReadThrows(a.items[first])
                            THEN sdkErrors \cup {Len(sdkCalls) + 1}
                            ELSE sdkErrors
            /\ UNCHANGED <<logMap, forwarded>>
       ELSE /\ logMap' = logMap \cup {mod}
            /\ forwarded' = Append(forwarded, [logger |-> mod, level |-> level, args |-> a])
            /\ UNCHANGED sdkErrors

(***************************************************************************)
(* The bot SDK logs through the logger setupLogging() installed (lines     *)
(* 92-101).                                                                *)
(***************************************************************************)
SdkLog(method, module, args) ==
    /\ Alive
    /\ \E k \in DOMAIN calls : calls[k] = "setupLogging"
    /\ Len(sdkCalls) < MaxSdkLogs
    /\ sdkCalls' = Append(sdkCalls, [method |-> method, module |-> module, args |-> args])
    /\ logFunc(LevelOf(method), module, args)
    /\ UNCHANGED <<inputs, disk, pc, config, port, thrown, calls, log, exitCode, uuids,
                   collab, evs>>

Next ==
    \/ ParseArgs
    \/ CheckGenerate
    \/ generateRegistration
    \/ EventLoopDrain
    \/ ResolvePort
    \/ LoadConfig
    \/ ApplyConfigStep
    \/ LegacyCheck
    \/ ReadRegistration
    \/ ConstructStore
    \/ ConstructAppservice
    \/ AttachMetrics
    \/ StoreInitCall
    \/ StoreInitResolve
    \/ StoreInitReject
    \/ ConstructBot
    \/ OnQueryRoom
    \/ OnRoomEvent
    \/ BindThirdparty
    \/ BeginCall
    \/ BeginResolve
    \/ BeginReject
    \/ InitResolve
    \/ InitReject
    \/ RunResolve
    \/ RunReject
    \/ TopLevelCatch
    \/ \E kind \in EventNames : \E id \in IdsOf(kind) : Deliver(kind, id)
    \/ \E i \in DOMAIN inv : QueryRoomResolve(i)
    \/ \E i \in DOMAIN inv : QueryRoomReject(i)
    \/ \E i \in DOMAIN inv : RoomEventResolve(i)
    \/ \E i \in DOMAIN inv : RoomEventReject(i)

Spec == Init /\ [][Next]_vars

(***************************************************************************)
(* The SDK logger on its own: one start of the service up to               *)
(* setupLogging(), then the log calls of the SDK.                          *)
(***************************************************************************)
LogInit ==
    /\ Init
    /\ argv = [ok |-> TRUE, help |-> FALSE, generate |-> FALSE, url |-> FALSE, port |-> 9005]
    /\ disk = [config |-> "mapping", port |-> 9000, roomStorePath |-> FALSE,
               userStorePath |-> FALSE, metrics |-> FALSE, registration |-> "old"]
    /\ env = [roomStorePath |-> FALSE]

LogNext ==
    \/ ParseArgs
    \/ CheckGenerate
    \/ ResolvePort
    \/ LoadConfig
    \/ ApplyConfigStep
    \/ LegacyCheck
    \/ ReadRegistration
    \/ \E method \in SdkMethods : \E module \in SdkModules : \E args \in SdkArgs :
          SdkLog(method, module, args)

LogSpec == LogInit /\ [][LogNext]_vars

(***************************************************************************)
(* Helpers of the properties.                                              *)
(***************************************************************************)
Called(name) == \E k \in DOMAIN calls : calls[k] = name

Logged(msg) == \E k \in DOMAIN log : log[k].msg = msg

IsPrefix(s, t) == Len(s) <= Len(t) /\ \A k \in DOMAIN s : s[k] = t[k]

\* begin() has been invoked on the transport
BeginInvoked == appservice.state \in {"beginning", "started", "failed"}

Failed(i) == inv[i].err # NoErr

\* C1: whenever begin() has been invoked on the transport, both event
\* subscriptions are installed, and no event the transport emitted found
\* no listener.
C1_SubscribedBeforeBegin ==
    /\ BeginInvoked => handlers = EventNames
    /\ missed = 0

\* the transport is started and has delivered an event of each kind
C1_Witness ==
    /\ appservice.state = "started"
    /\ \E i, j \in DOMAIN inv : inv[i].kind = "query.room" /\ inv[j].kind = "room.event"

\* C2: when store.init() has failed, the failure is logged, the process
\* has ended with status 1, and the bridge logic was never constructed, no
\* subscription installed, begin() never invoked, "Started listening"
\* never logged.
C2_StoreInitFailureIsFatal ==
    store = "failed" =>
        /\ exitCode = 1
        /\ \E k \in DOMAIN log : /\ log[k].level = "error"
                                 /\ log[k].msg = "Failed to init database. Exiting."
        /\ discordbot = "none" /\ ~Called("new DiscordBot")
        /\ handlers = {}
        /\ ~BeginInvoked /\ ~Called("appservice.begin")
        /\ ~Logged("Started listening on port")

C2_Witness == store = "failed" /\ pc = "exited"

\* C3: the step in which a handler invocation fails leaves run(), the exit
\* status and the subscriptions alone, and the error never leaves the
\* handler; no event finds no listener.
C3_HandlerFailureContained ==
    /\ [](unhandled = {} /\ missed = 0)
    /\ [][\A i \in DOMAIN inv :
            (~Failed(i) /\ inv'[i].err # NoErr) =>
                /\ exitCode' = exitCode /\ pc' = pc /\ thrown' = thrown
                /\ handlers' = EventNames
                /\ inv'[i].pc = "done"]_vars

\* an alias query has failed, and the event delivered after it was handled
C3_Witness ==
    \E i, k \in DOMAIN inv :
        /\ i < k
        /\ Failed(i) /\ inv[i].kind = "query.room"
        /\ ~Failed(k) /\ inv[k].kind = "room.event" /\ inv[k].pc = "done"
        /\ Alive

\* the log entries the handlers' catch blocks write
IsHandlerEntry(entry) ==
    entry.msg = CatchMessage("query.room") \/ entry.msg = CatchMessage("room.event")
KindOfMessage(msg) == IF msg = CatchMessage("query.room") THEN "query.room" ELSE "room.event"

StepEvents ==
    {"new DiscordStore", "new Appservice", "metrics.init",
     "store.init", "store.init:ok", "store.init:err", "new DiscordBot",
     "on query.room", "on room.event", "bindThirdparty",
     "appservice.begin", "appservice.begin:ok", "appservice.begin:err",
     "discordbot.init", "discordbot.init:ok", "discordbot.init:err",
     "discordbot.run", "discordbot.run:ok", "discordbot.run:err"}

StartupOrder(metrics) ==
    <<"new DiscordStore", "new Appservice">>
    \o (IF metrics THEN <<"metrics.init">> ELSE <<>>)
    \o <<"store.init", "store.init:ok", "new DiscordBot",
         "on query.room", "on room.event", "bindThirdparty",
         "appservice.begin", "appservice.begin:ok",
         "discordbot.init", "discordbot.init:ok",
         "discordbot.run", "discordbot.run:ok">>

IsStep(c) == c \in StepEvents
StepsTaken == SelectSeq(calls, IsStep)

\* a failed completion read as the completion it stands for
AsCompleted(c) ==
    CASE c = "store.init:err" -> "store.init:ok"
      [] c = "appservice.begin:err" -> "appservice.begin:ok"
      [] c = "discordbot.init:err" -> "discordbot.init:ok"
      [] c = "discordbot.run:err" -> "discordbot.run:ok"
      [] OTHER -> c

IsFailure(c) == AsCompleted(c) # c

\* C5: the startup steps taken so far are a prefix of the order construct
\* store, construct transport, attach metrics (if enabled), store init,
\* construct bridge logic, the two subscriptions, bindThirdparty, begin,
\* bridge init, bridge run, each awaited step completing before the next
\* starts; a failed step is the last one.
C5_StartupSequential ==
    LET t == StepsTaken
        n == Len(t)
    IN /\ IsPrefix([k \in 1..n |-> AsCompleted(t[k])], StartupOrder(config.metrics))
       /\ \A k \in 1..n : IsFailure(t[k]) => k = n

\* the whole sequence has run, metrics included
C5_Witness ==
    /\ config.metrics
    /\ StepsTaken = StartupOrder(TRUE)

\* the lifecycle stage a call of run() brings the service to
StageCalls == {"applyConfig", "store.init", "store.init:ok", "new Appservice",
               "appservice.begin:ok", "discordbot.init", "discordbot.run:ok"}
StageOf(c) ==
    CASE c = "applyConfig" -> "ConfigLoaded"
      [] c = "store.init" -> "StoreInitializing"
      [] c = "store.init:ok" -> "StoreReady"
      [] c = "new Appservice" -> "TransportConstructed"
      [] c = "appservice.begin:ok" -> "TransportStarted"
      [] c = "discordbot.init" -> "BridgeInitializing"
      [] c = "discordbot.run:ok" -> "Running"

IsStageCall(c) == c \in StageCalls
\* the stages reached so far, in the order they were reached
Stages ==
    LET t == SelectSeq(calls, IsStageCall)
    IN <<"Idle">> \o [k \in 1..Len(t) |-> StageOf(t[k])]

\* the order of the stages as the specification lists them
ListedOrder == <<"Idle", "ConfigLoaded", "StoreInitializing", "StoreReady",
                 "TransportConstructed", "TransportStarted", "BridgeInitializing",
                 "Running">>
\* the order with the transport constructed before the store is initialized
ConstructedFirstOrder == <<"Idle", "ConfigLoaded", "TransportConstructed",
                           "StoreInitializing", "StoreReady", "TransportStarted",
                           "BridgeInitializing", "Running">>

Rank(order, st) == CHOOSE k \in DOMAIN order : order[k] = st

Advances(order) ==
    LET st == Stages
    IN \A k \in 1..(Len(st) - 1) : Rank(order, st[k]) < Rank(order, st[k + 1])

\* C6 (as stated): the stages are reached in the listed order, and the
\* transport is constructed only once store initialization has succeeded.
C6_StagesInListedOrder ==
    /\ Advances(ListedOrder)
    /\ appservice.state # "none" => store = "ready"

\* C6 (amended): the stages are reached in the order Idle, ConfigLoaded,
\* TransportConstructed, StoreInitializing, StoreReady, TransportStarted,
\* BridgeInitializing, Running: the transport is constructed before store
\* initialization begins, and begin() is invoked on it only once store
\* initialization has succeeded.
C6_StagesInCodeOrder ==
    /\ Advances(ConstructedFirstOrder)
    /\ store \in {"initializing", "ready", "failed"} => appservice.state # "none"
    /\ BeginInvoked => store = "ready"

C6_Witness == Stages = ConstructedFirstOrder

\* a startup step has failed
StartupFailed == thrown # NoErr \/ store = "failed" \/ discordbot = "failed"

LastLogIsError == log # <<>> /\ log[Len(log)].level = "error"

\* C7: once a startup step has failed, run() goes no further: either the
\* process has ended with status 1 right after an error log entry, or the
\* rejection of run() is at the outermost catch, which is ready to log it
\* and end the process; the exit status is never 0.
C7_StartupFailureIsFatal ==
    StartupFailed =>
        /\ exitCode # 0
        /\ \/ /\ pc = "exited" /\ exitCode = 1 /\ LastLogIsError
           \/ /\ pc = "rejected" /\ exitCode = NotExited /\ ENABLED TopLevelCatch

\* begin() failed and the outermost catch has ended the process
C7_Witness ==
    /\ thrown.from = "appservice.begin"
    /\ pc = "exited" /\ exitCode = 1

\* the calls of the run path
RunPathCalls == {"new DiscordBridgeConfig", "readFileSync config", "applyConfig",
                 "readFileSync registration", "setupLogging"} \cup StepEvents

\* C8: with --generate-registration, the configuration file is never read
\* and no store, transport or bridge logic is constructed, initialized,
\* started or run.
C8_GenerateExcludesRunPath ==
    argv.generate =>
        /\ \A k \in DOMAIN calls : calls[k] \notin RunPathCalls
        /\ store = "none" /\ appservice.state = "none" /\ discordbot = "none"
        /\ handlers = {}

\* the registration has been generated and run() has returned
C8_Witness ==
    /\ argv.generate /\ argv.port # NoPort
    /\ disk.registration = "new" /\ exitCode = 0

\* the generation was rejected
Rejected == thrown.from \in {"alreadyExists", "urlNotGiven"}

\* C9: when the generation is rejected no token has been generated and the
\* registration file is as it was (an existing one kept, none created); a
\* token is generated only after the existence check.
C9_RejectionHasNoEffect ==
    /\ Rejected =>
          /\ uuids = 0 /\ ~Called("uuid")
          /\ ~Called("writeFileSync")
          /\ disk.registration = (IF thrown.from = "alreadyExists" THEN "old" ELSE "absent")
    /\ \A k \in DOMAIN calls :
          calls[k] = "uuid" => \E j \in 1..(k - 1) : calls[j] = "existsSync"

\* rejected for the missing url, the process has ended
C9_Witness == thrown.from = "urlNotGiven" /\ exitCode = 1

\* C10 (as stated): port validation fails exactly when neither the command
\* line nor the configuration file gives a port, and the transport is
\* given the command line's port if there is one, else the file's.
C10_PortResolution ==
    /\ Called("new DiscordBridgeConfig") =>
          (thrown.from = "portNotGiven" <=> (argv.port = NoPort /\ disk.port = NoPort))
    /\ appservice.state # "none" => appservice.port = JsOr(argv.port, disk.port)

\* the errors of configuration validation
ConfigErrors == {"notAnObject", "portNotGiven", "legacyConfig"}

\* C11 (as stated): configuration validation happens after the file is
\* loaded and the environment overrides are applied, and reports the first
\* violated rule in the order not-an-object, missing-port, legacy-config:
\* a missing-port error means the document is an object, a legacy-config
\* error means it is an object and the port resolved.
C11_ValidationOrder ==
    /\ thrown.from \in ConfigErrors => Called("readFileSync config")
    /\ thrown.from \in {"portNotGiven", "legacyConfig"} =>
          /\ disk.config = "mapping"
          /\ Called("applyEnvironmentOverrides")
    /\ thrown.from = "legacyConfig" => port # NoPort

\* the configuration, once the file and the overrides are applied, has a
\* legacy storage-path key
LegacyKeySet ==
    /\ Called("applyEnvironmentOverrides")
    /\ config.roomStorePath \/ config.userStorePath

\* the calls that open a resource
ResourceCalls == {"readFileSync registration", "setupLogging"} \cup StepEvents

\* C12: with a legacy storage-path key set after the file and the overrides
\* are applied, run() stops at the legacy check: the process ends with
\* status 1 and never with 0, the registration file is not read, the SDK
\* logger is not installed, no store, transport or bridge logic exists.
C12_LegacyKeysStopStartup ==
    LegacyKeySet =>
        /\ pc \in {"legacy", "rejected", "exited"}
        /\ pc = "rejected" => thrown.from = "legacyConfig" /\ ENABLED TopLevelCatch
        /\ pc = "exited" => exitCode = 1
        /\ \A k \in DOMAIN calls : calls[k] \notin ResourceCalls
        /\ store = "none" /\ appservice.state = "none" /\ discordbot = "none"

\* the key comes from the environment alone and the process has ended
C12_Witness ==
    /\ LegacyKeySet /\ env.roomStorePath /\ ~disk.roomStorePath /\ ~disk.userStorePath
    /\ exitCode = 1

\* the registration has been generated and run() has returned
Generated == argv.generate /\ disk.registration = "new" /\ pc = "returned"

\* C13 (as stated): the process ends with status 0 exactly on malformed
\* usage, on --help and after a successful registration generation.
C13_ExitZeroOnUsageHelpGenerate ==
    exitCode # NotExited =>
        (exitCode = 0 <=> (~argv.ok \/ argv.help \/ Generated))

\* C13 (amended): the process ends with status 0 exactly on --help (of a
\* well-formed command line) and after a successful registration
\* generation; malformed usage ends, like every other fatal path, with a
\* non-zero status.
C13_ExitZeroOnHelpGenerate ==
    exitCode # NotExited =>
        /\ exitCode \in {0, 1}
        /\ exitCode = 0 <=> (argv.ok /\ (argv.help \/ Generated))

\* a malformed command line asking for help has ended with status 1
C13_Witness == ~argv.ok /\ argv.help /\ exitCode = 1

\* the arguments of a log call, as a sequence
ArgumentsOf(call) == IF call.args.type = "array" THEN call.args.items ELSE <<call.args>>

\* some argument of the call is a string containing the noise marker
IsNoise(call) ==
    \E k \in DOMAIN ArgumentsOf(call) :
        /\ ArgumentsOf(call)[k].type = "string"
        /\ \E j \in DOMAIN ArgumentsOf(call)[k].text :
              ArgumentsOf(call)[k].text[j] = "M_USER_IN_USE"

NotNoise(call) == ~IsNoise(call)

\* C14: the entries forwarded are, in order, one per log call none of whose
\* arguments is a string containing "M_USER_IN_USE": each goes to the
\* logger tagged "bot-sdk" + the caller's module, with the arguments as a
\* sequence (a lone argument wrapped); the calls with such a string forward
\* nothing and create no logger.
C14_SdkLogForwarding ==
    LET kept == SelectSeq(sdkCalls, NotNoise)
    IN /\ Len(forwarded) = Len(kept)
       /\ \A k \in DOMAIN kept :
             /\ forwarded[k].logger = <<"bot-sdk", kept[k].module>>
             /\ forwarded[k].args.type = "array"
             /\ forwarded[k].args.items = ArgumentsOf(kept[k])
       /\ logMap = {<<"bot-sdk", kept[k].module>> : k \in DOMAIN kept}

\* the same for executions in which no log call threw
C14_ForwardingUnlessThrown == sdkErrors = {} => C14_SdkLogForwarding

\* the calls of an alias-query invocation, in the order of lines 182-184
AliasChain == <<"OnAliasQuery", "createRoom", "OnAliasQueried">>

CreateRoomInvoked(i) == \E k \in DOMAIN inv[i].calls : inv[i].calls[k].fn = "createRoom"

\* C16: an alias-query invocation that is over has invoked the transport's
\* room-creation continuation, whether or not OnAliasQuery raised (an
\* invocation that is over makes no further call, so one that ends without
\* the continuation never invokes it).
C16_ContinuationInvoked ==
    \A i \in DOMAIN inv :
        inv[i].kind = "query.room" /\ inv[i].pc = "done" => CreateRoomInvoked(i)

\* the calls of a timeline-event invocation, in the order of lines 192-193
EventChain == <<"getEntriesByMatrixId", "OnEvent">>

\* C17: the calls of a timeline-event invocation are a prefix of
\* getEntriesByMatrixId(roomId), OnEvent(event, entries): the lookup is for
\* the room id of the event, OnEvent is called once the lookup has returned,
\* with that event and the entries returned, and a lookup that failed is
\* the only call of the invocation.
C17_LookupBeforeOnEvent ==
    \A i \in DOMAIN inv :
        inv[i].kind = "room.event" =>
            LET c == inv[i].calls
            IN /\ Len(c) \in 1..2
               /\ \A k \in DOMAIN c : c[k].fn = EventChain[k]
               /\ c[1].arg = inv[i].id
               /\ Len(c) = 1 => inv[i].val = "none"
               /\ Len(c) = 2 => /\ inv[i].val \in Entries
                                /\ c[2].arg = EventOf(inv[i].id)
                                /\ c[2].arg2 = inv[i].val
               /\ inv[i].pc # "done" => inv[i].pc = c[Len(c)].fn /\ ~Failed(i)
               /\ Failed(i) => inv[i].pc = "done" /\ inv[i].err.from = c[Len(c)].fn

\* one event went to OnEvent with the entry found, another stopped at a
\* failed lookup
C17_Witness ==
    \E i, j \in DOMAIN inv :
        /\ inv[i].kind = "room.event" /\ inv[i].pc = "done" /\ ~Failed(i)
        /\ inv[i].val = "oneEntry" /\ Len(inv[i].calls) = 2
        /\ inv[j].kind = "room.event" /\ Failed(j)
        /\ inv[j].err.from = "getEntriesByMatrixId" /\ Len(inv[j].calls) = 1

\* invocation i is between two of its calls
InFlight(i) == inv[i].pc # "done"

\* the chain of calls of a handler
ChainOf(kind) == IF kind = "query.room" THEN AliasChain ELSE EventChain

\* invocation i can take its next step as soon as the call it awaits returns
CanProceed(i) ==
    IF inv[i].kind = "query.room" THEN ENABLED QueryRoomResolve(i)
                                  ELSE ENABLED RoomEventResolve(i)

\* C18: while the process runs, every invocation in flight can go on when
\* its own call returns, whatever state the other invocations are in
\* (waiting, failed or over); a step of one invocation, its failure
\* included, leaves every other invocation as it was; and an invocation
\* that is over without a failure has made every call of its chain.
C18_InvocationsIsolated ==
    /\ [](\A i \in DOMAIN inv :
             /\ Alive /\ InFlight(i) => CanProceed(i)
             /\ ~InFlight(i) /\ ~Failed(i) =>
                   Len(inv[i].calls) = Len(ChainOf(inv[i].kind)))
    /\ [][\A i \in DOMAIN inv :
             /\ i \in DOMAIN inv'
             /\ inv'[i] # inv[i] => \A j \in DOMAIN inv \ {i} : inv'[j] = inv[j]]_vars

\* the second invocation ran its chain to the end while the first is still
\* waiting for its first call
C18_Witness ==
    /\ Len(inv) = 2
    /\ inv[1].pc = FirstCall(inv[1].kind) /\ Len(inv[1].calls) = 1
    /\ inv[2].pc = "done" /\ ~Failed(2)
    /\ Len(inv[2].calls) = Len(ChainOf(inv[2].kind))

\* C19: an invocation makes each of its calls (OnAliasQuery;
\* getEntriesByMatrixId, OnEvent) at most once, and once it is over, with
\* or without a failure, it is never changed or started again.
C19_NoRetry ==
    /\ [](\A i \in DOMAIN inv :
             \A k, l \in DOMAIN inv[i].calls :
                 inv[i].calls[k].fn = inv[i].calls[l].fn => k = l)
    /\ [][\A i \in DOMAIN inv :
             ~InFlight(i) => i \in DOMAIN inv' /\ inv'[i] = inv[i]]_vars

\* the first event failed in its first call, which was made once, and the
\* router has since handled a second event to the end
C19_Witness ==
    /\ Len(inv) = 2
    /\ Failed(1) /\ inv[1].err.from = FirstCall(inv[1].kind)
    /\ Len(inv[1].calls) = 1
    /\ inv[2].pc = "done" /\ ~Failed(2)

\* the handlers' calls into bridge logic
BridgeLogicCalls == {"OnAliasQuery", "OnEvent"}

\* invocation i has called into bridge logic
ReachedBridgeLogic(i) ==
    \E k \in DOMAIN inv[i].calls : inv[i].calls[k].fn \in BridgeLogicCalls

\* C20: whenever an invocation has called OnAliasQuery or OnEvent, the
\* bridge logic's init() has completed successfully (the calls of an
\* execution are only added to, so this holds in the state right after
\* the call if and only if init() had completed when the call was made).
C20_NoEventBeforeInit ==
    \A i \in DOMAIN inv : ReachedBridgeLogic(i) => Called("discordbot.init:ok")
====
